---- MODULE Spec2Model ----
(***************************************************************************)
(* Model of portlist/portlist.go: the Port comparator (lessThan), the      *)
(* change detector (List.sameInodes), the presenter (List.String) and the  *)
(* normalizer (sortAndDedup).                                              *)
(*                                                                         *)
(* Go strings are modelled as sequences of byte values, so that string     *)
(* comparison (<) is the bytewise lexicographic order Go uses, and the     *)
(* formatting verbs of List.String are computed character by character.    *)
(* Go slices are modelled as headers [ptr, len] into a heap of backing     *)
(* arrays, so that in-place sorting and slice reuse are visible.           *)
(***************************************************************************)
EXTENDS Integers, Sequences, FiniteSets, TLC

VARIABLES
    pc,         \* which step of the scenario has run
    batch,      \* the batch as the Collector handed it over (by value)
    heap,       \* backing arrays: heap[p] is the array slice headers point to
    ps,         \* slice header of the caller's batch
    out,        \* slice header returned by the first sortAndDedup call
    snap,       \* value of the first returned Snapshot at the time of return
    rel,        \* how the second batch relates to the first
    batch2,     \* the second batch as handed over (by value)
    out2,       \* slice header returned by the second sortAndDedup call
    x, y, z,    \* operands of the comparator
    lt,         \* results of lessThan on the operands
    a, b,       \* operands of sameInodes
    same,       \* result of a.sameInodes(b)
    pl,         \* operand of String
    text        \* result of pl.String()

vars == <<pc, batch, heap, ps, out, snap, rel, batch2, out2,
          x, y, z, lt, a, b, same, pl, text>>

----------------------------------------------------------------------------
(* Strings as byte sequences *)

tcp == <<116, 99, 112>>
udp == <<117, 100, 112>>

\* Go's s < t on strings: bytewise lexicographic, a proper prefix is smaller.
\* StrLessFrom compares from position i on, the bytes before being equal.
RECURSIVE StrLessFrom(_, _, _)
StrLessFrom(s, t, i) ==
    IF i > Len(t) THEN FALSE
    ELSE IF i > Len(s) THEN TRUE
    ELSE IF s[i] < t[i] THEN TRUE
    ELSE IF s[i] > t[i] THEN FALSE
    ELSE StrLessFrom(s, t, i + 1)

StrLess(s, t) == StrLessFrom(s, t, 1)

----------------------------------------------------------------------------
(* type Port *)

Port(proto, port, process, inode) ==
    [Proto |-> proto, Port |-> port, Process |-> process, inode |-> inode]

\* var last Port: the zero value
ZeroPort == Port(<<>>, 0, <<>>, <<>>)

\* lessThan without the final comparison of Process
lessThanNoProcess(p, q) ==
    IF p.Port < q.Port THEN TRUE
    ELSE IF p.Port > q.Port THEN FALSE
    ELSE IF StrLess(p.Proto, q.Proto) THEN TRUE
    ELSE IF StrLess(q.Proto, p.Proto) THEN FALSE
    ELSE IF StrLess(p.inode, q.inode) THEN TRUE
    ELSE FALSE

\* lessThan with Proto compared before Port
lessThanProtoFirst(p, q) ==
    IF StrLess(p.Proto, q.Proto) THEN TRUE
    ELSE IF StrLess(q.Proto, p.Proto) THEN FALSE
    ELSE IF p.Port < q.Port THEN TRUE
    ELSE IF p.Port > q.Port THEN FALSE
    ELSE IF StrLess(p.inode, q.inode) THEN TRUE
    ELSE IF StrLess(q.inode, p.inode) THEN FALSE
    ELSE IF StrLess(p.Process, q.Process) THEN TRUE
    ELSE FALSE

\* lessThan with Process compared before inode
lessThanProcessFirst(p, q) ==
    IF p.Port < q.Port THEN TRUE
    ELSE IF p.Port > q.Port THEN FALSE
    ELSE IF StrLess(p.Proto, q.Proto) THEN TRUE
    ELSE IF StrLess(q.Proto, p.Proto) THEN FALSE
    ELSE IF StrLess(p.Process, q.Process) THEN TRUE
    ELSE IF StrLess(q.Process, p.Process) THEN FALSE
    ELSE IF StrLess(p.inode, q.inode) THEN TRUE
    ELSE FALSE

\* func (a *Port) lessThan(b *Port) bool
lessThan(p, q) ==
    IF p.Port < q.Port THEN TRUE
    ELSE IF p.Port > q.Port THEN FALSE
    ELSE IF StrLess(p.Proto, q.Proto) THEN TRUE
    ELSE IF StrLess(q.Proto, p.Proto) THEN FALSE
    ELSE IF StrLess(p.inode, q.inode) THEN TRUE
    ELSE IF StrLess(q.inode, p.inode) THEN FALSE
    ELSE IF StrLess(p.Process, q.Process) THEN TRUE
    ELSE IF StrLess(q.Process, p.Process) THEN FALSE
    ELSE FALSE

----------------------------------------------------------------------------
(* func (a List) sameInodes(b List) bool *)

RECURSIVE sameInodesFrom(_, _, _)
sameInodesFrom(l, m, i) ==
    IF i > Len(l) THEN TRUE
    ELSE IF \/ l[i].Proto # m[i].Proto
            \/ l[i].Port # m[i].Port
            \/ l[i].inode # m[i].inode
         THEN FALSE
         ELSE sameInodesFrom(l, m, i + 1)

\* sameInodes without the comparison of inode
sameInodesNoInode(l, m) ==
    /\ Len(l) = Len(m)
    /\ \A i \in 1..Len(l) : l[i].Proto = m[i].Proto /\ l[i].Port = m[i].Port

sameInodes(l, m) ==
    IF Len(l) # Len(m) THEN FALSE ELSE sameInodesFrom(l, m, 1)

----------------------------------------------------------------------------
(* Slices and the heap *)

NilSlice == [ptr |-> 0, len |-> 0]

\* The elements a slice header denotes in heap h.
View(h, s) == IF s.ptr = 0 THEN <<>> ELSE SubSeq(h[s.ptr], 1, s.len)

----------------------------------------------------------------------------
(* func sortAndDedup(ps List) List *)

\* s without its i-th element
Remove(s, i) == SubSeq(s, 1, i - 1) \o SubSeq(s, i + 1, Len(s))

\* positions of s holding an element no other element is less than
MinimalAt(s) == {i \in 1..Len(s) : \A j \in 1..Len(s) : ~lessThan(s[j], s[i])}

\* sort.Slice(ps, less): some rearrangement of ps that is sorted by less.
\* sort.Slice is not stable, so elements that less does not order may come
\* out in any order: every arrangement obtained by repeatedly taking any
\* minimal element is a possible outcome.
RECURSIVE SortOutcomes(_)
SortOutcomes(s) ==
    IF s = <<>> THEN {<<>>}
    ELSE UNION {{<<s[i]>> \o t : t \in SortOutcomes(Remove(s, i))} : i \in MinimalAt(s)}

\* the dedup test comparing Port alone
lastMatchesPortOnly(last, p) == last.Port = p.Port

\* if last == protoPort, with protoPort := Port{Proto: p.Proto, Port: p.Port}
lastMatches(last, p) == last = Port(p.Proto, p.Port, <<>>, <<>>)

\* the dedup loop keeping the last entry of a (Proto, Port) run, not the first
RECURSIVE dedupLoopKeepLast(_, _, _, _)
dedupLoopKeepLast(arr, i, n, last) ==
    IF i > Len(arr) THEN [arr |-> arr, len |-> n]
    ELSE LET p == arr[i] IN
         IF lastMatches(last, p)
         THEN dedupLoopKeepLast([arr EXCEPT ![n] = p], i + 1, n, last)
         ELSE dedupLoopKeepLast([arr EXCEPT ![n + 1] = p], i + 1, n + 1,
                                Port(p.Proto, p.Port, <<>>, <<>>))

\* the dedup loop forgetting `last` whenever it skips an entry
RECURSIVE dedupLoopResetOnSkip(_, _, _, _)
dedupLoopResetOnSkip(arr, i, n, last) ==
    IF i > Len(arr) THEN [arr |-> arr, len |-> n]
    ELSE LET p == arr[i] IN
         IF lastMatches(last, p)
         THEN dedupLoopResetOnSkip(arr, i + 1, n, ZeroPort)
         ELSE dedupLoopResetOnSkip([arr EXCEPT ![n + 1] = p], i + 1, n + 1,
                                   Port(p.Proto, p.Port, <<>>, <<>>))

\* The loop `for _, p := range ps { ... out = append(out, p) ... }`, where
\* out aliases ps: arr is the shared backing array, i the position read,
\* n the current len(out).
RECURSIVE dedupLoop(_, _, _, _)
dedupLoop(arr, i, n, last) ==
    IF i > Len(arr) THEN [arr |-> arr, len |-> n]
    ELSE LET p == arr[i] IN
         IF lastMatches(last, p)
         THEN dedupLoop(arr, i + 1, n, last)
         ELSE dedupLoop([arr EXCEPT ![n + 1] = p], i + 1, n + 1,
                        Port(p.Proto, p.Port, <<>>, <<>>))

\* A variant that sorts and dedups a private copy and returns it in a fresh
\* backing array, leaving the argument untouched.
sortAndDedupCopy(h, s) ==
    { LET r == dedupLoop(srt, 1, 0, ZeroPort) IN
        [heap |-> Append(h, r.arr), out |-> [ptr |-> Len(h) + 1, len |-> r.len]]
      : srt \in SortOutcomes(View(h, s)) }

\* The possible results of sortAndDedup(s) in heap h: the heap afterwards
\* and the returned slice header.
sortAndDedup(h, s) ==
    IF s.ptr = 0 THEN {[heap |-> h, out |-> NilSlice]}
    ELSE { LET r == dedupLoop(srt, 1, 0, ZeroPort) IN
             [heap |-> [h EXCEPT ![s.ptr] = r.arr \o SubSeq(h[s.ptr], s.len + 1, Len(h[s.ptr]))],
              out  |-> [ptr |-> s.ptr, len |-> r.len]]
           : srt \in SortOutcomes(View(h, s)) }

----------------------------------------------------------------------------
(* func (pl List) String() string *)

Spaces(n) == [i \in 1..n |-> 32]

\* %-Ns: left-justified, padded with spaces to the width, never truncated.
PadRight(s, w) == IF Len(s) >= w THEN s ELSE s \o Spaces(w - Len(s))

\* %Nd: right-justified, padded with spaces to the width.
PadLeft(s, w) == IF Len(s) >= w THEN s ELSE Spaces(w - Len(s)) \o s

\* decimal digits of a non-negative integer
RECURSIVE Itoa(_)
Itoa(n) == IF n < 10 THEN <<48 + n>> ELSE Itoa(n \div 10) \o <<48 + (n % 10)>>

HexDigit(d) == IF d < 10 THEN 48 + d ELSE 87 + d

\* strconv.Quote's rendering of one ASCII byte
QuoteByte(c) ==
    CASE c = 34 -> <<92, 34>>
      [] c = 92 -> <<92, 92>>
      [] c = 7  -> <<92, 97>>
      [] c = 8  -> <<92, 98>>
      [] c = 12 -> <<92, 102>>
      [] c = 10 -> <<92, 110>>
      [] c = 13 -> <<92, 114>>
      [] c = 9  -> <<92, 116>>
      [] c = 11 -> <<92, 118>>
      [] OTHER  -> IF c >= 32 /\ c < 127 THEN <<c>>
                   ELSE <<92, 120, HexDigit(c \div 16), HexDigit(c % 16)>>

RECURSIVE QuoteBody(_)
QuoteBody(s) == IF s = <<>> THEN <<>> ELSE QuoteByte(Head(s)) \o QuoteBody(Tail(s))

\* the string between double quotes, nothing escaped
QuoteRaw(s) == <<34>> \o s \o <<34>>

\* %#v of a string: the Go-syntax double-quoted literal (ASCII input)
Quote(s) == <<34>> \o QuoteBody(s) \o <<34>>

\* fmt.Sprintf("%-3s %5d %-17s %#v", v.Proto, v.Port, v.inode, v.Process)
FormatLine(v) ==
    PadRight(v.Proto, 3) \o <<32>> \o PadLeft(Itoa(v.Port), 5) \o <<32>>
        \o PadRight(v.inode, 17) \o <<32>> \o Quote(v.Process)

\* no trimming
TrimRightNone(s) == s

\* strings.TrimRight(s, "\n"): drop every trailing newline
RECURSIVE TrimRight(_)
TrimRight(s) ==
    IF s # <<>> /\ s[Len(s)] = 10 THEN TrimRight(SubSeq(s, 1, Len(s) - 1)) ELSE s

RECURSIVE Builder(_)
Builder(l) == IF l = <<>> THEN <<>> ELSE FormatLine(Head(l)) \o <<10>> \o Builder(Tail(l))

String(l) == TrimRight(Builder(l))

----------------------------------------------------------------------------
(* Inputs *)

\* Longest batch handed to sortAndDedup.
MaxLen == 3
\* Longest list handed to sameInodes.
MaxListLen == 2
\* Longest list handed to String.
MaxLines == 2

SeqsUpTo(S, n) == UNION {[1..k -> S] : k \in 0..n}

Ports(protos, nums, inodes, procs) ==
    {Port(pr, n, pn, ino) : pr \in protos, n \in nums, pn \in procs, ino \in inodes}

\* "sock2" "sock3" / "dns" "nginx"
sock2 == <<115, 111, 99, 107, 50>>
sock3 == <<115, 111, 99, 107, 51>>
dns   == <<100, 110, 115>>
nginx == <<110, 103, 105, 110, 120>>

\* Observations given to sortAndDedup.  The (Proto, Port) pairs cover port 0,
\* a lower port with the greater Proto (udp/0 against tcp/80) and one port
\* under both protocols.  The (inode, Process) pairs cover an equal inode
\* with different Process, and a smaller inode with the greater Process.
NormKeys == {<<tcp, 0>>, <<udp, 0>>, <<tcp, 80>>}
NormIds == {<<<<>>, <<>>>>, <<<<>>, nginx>>, <<sock2, <<>>>>}
NormProcs == {<<>>, nginx}
NormPorts == {Port(k[1], k[2], id[2], id[1]) : k \in NormKeys, id \in NormIds}

\* The batch of the documented example:
\* {tcp,80,"",""}, {tcp,80,"sock2","nginx"}, {udp,53,"sock3","dns"}
ExampleBatch ==
    <<Port(tcp, 80, <<>>, <<>>), Port(tcp, 80, nginx, sock2), Port(udp, 53, dns, sock3)>>
ExamplePorts == {ExampleBatch[i] : i \in 1..3}

\* Batches handed to sortAndDedup
Batches == SeqsUpTo(NormPorts, MaxLen) \cup SeqsUpTo(ExamplePorts, MaxLen)

\* Operands of the comparator. "s10" < "s2" lexicographically although it is
\* longer; "" is a Proto no collector produces but the type admits.
CmpPorts ==
    Ports({<<>>, tcp, udp}, {53, 80}, {<<>>, <<115, 49, 48>>, <<115, 50>>}, {<<>>, dns})

\* Operands of sameInodes: every field takes two values.
SamePorts == Ports({tcp, udp}, {22}, {sock2, sock3}, {dns, nginx})
                \cup Ports({tcp}, {80}, {sock2}, {dns})

\* Operands of String: a socket identity wider than its column
\* ("socket:[165614651]") and one holding a newline ("a\nb"); process names
\* holding a newline ("x\n") and a quote.
socketInode == <<115, 111, 99, 107, 101, 116, 58, 91, 49, 54, 53, 54, 49, 52, 54, 53, 49, 93>>
RenderPorts ==
    Ports({tcp, udp}, {0, 65535}, {<<>>, socketInode, <<97, 10, 98>>},
          {<<>>, <<120, 10>>, <<34>>})

----------------------------------------------------------------------------
(* Normalizer: one poll, then a second poll related to the first *)

normVars == <<batch, heap, ps, out, snap, rel, batch2, out2>>
cmpVars  == <<x, y, z, lt>>
sameVars == <<a, b, same>>
strVars  == <<pl, text>>

InitNorm ==
    /\ pc = "collected"
    /\ batch \in Batches
    /\ heap = <<batch>>
    /\ ps = [ptr |-> 1, len |-> Len(batch)]
    /\ out = NilSlice /\ snap = <<>> /\ rel = "none"
    /\ batch2 = <<>> /\ out2 = NilSlice
    /\ x = ZeroPort /\ y = ZeroPort /\ z = ZeroPort /\ lt = <<>>
    /\ a = <<>> /\ b = <<>> /\ same = FALSE
    /\ pl = <<>> /\ text = <<>>

\* out := sortAndDedup(ps)
Normalize ==
    /\ pc = "collected"
    /\ \E r \in sortAndDedup(heap, ps) :
        /\ heap' = r.heap
        /\ out' = r.out
        /\ snap' = View(r.heap, r.out)
    /\ pc' = "normalized"
    /\ UNCHANGED <<batch, ps, rel, batch2, out2, cmpVars, sameVars, strVars>>

\* A second batch b2 arrives in its own backing array and is normalized.
SecondPoll(b2, how) ==
    /\ pc = "normalized"
    /\ LET h == Append(heap, b2) IN
       \E r \in sortAndDedup(h, [ptr |-> Len(h), len |-> Len(b2)]) :
        /\ heap' = r.heap
        /\ out2' = r.out
    /\ batch2' = b2
    /\ rel' = how
    /\ same' = sameInodes(snap, View(heap', out2'))
    /\ pc' = "renormalized"
    /\ UNCHANGED <<batch, ps, out, snap, cmpVars, a, b, strVars>>

\* The same observations in another order.
PollPermuted ==
    /\ pc = "normalized"
    /\ \E f \in Permutations(1..Len(batch)) :
        SecondPoll([i \in 1..Len(batch) |-> batch[f[i]]], "permuted")

\* The same sockets with other process names.
PollChurned ==
    /\ pc = "normalized"
    /\ \E names \in [1..Len(batch) -> NormProcs] :
        SecondPoll([i \in 1..Len(batch) |-> [batch[i] EXCEPT !.Process = names[i]]],
                   "churned")

\* out2 := sortAndDedup(out): the Snapshot is normalized again, in place.
Renormalize ==
    /\ pc = "normalized"
    /\ \E r \in sortAndDedup(heap, out) :
        /\ heap' = r.heap
        /\ out2' = r.out
    /\ batch2' = View(heap, out)
    /\ rel' = "snapshot"
    /\ same' = sameInodes(snap, View(heap', out2'))
    /\ pc' = "renormalized"
    /\ UNCHANGED <<batch, ps, out, snap, cmpVars, a, b, strVars>>

NextNorm == Normalize \/ PollPermuted \/ PollChurned \/ Renormalize

SpecNorm == InitNorm /\ [][NextNorm]_vars

----------------------------------------------------------------------------
(* Comparator *)

InitCmp ==
    /\ pc = "operands"
    /\ x \in CmpPorts /\ y \in CmpPorts /\ z \in CmpPorts
    /\ lt = <<>>
    /\ batch = <<>> /\ heap = <<>> /\ ps = NilSlice /\ out = NilSlice
    /\ snap = <<>> /\ rel = "none" /\ batch2 = <<>> /\ out2 = NilSlice
    /\ a = <<>> /\ b = <<>> /\ same = FALSE
    /\ pl = <<>> /\ text = <<>>

Compare ==
    /\ pc = "operands"
    /\ lt' = [xx |-> lessThan(x, x), xy |-> lessThan(x, y), yx |-> lessThan(y, x),
              yz |-> lessThan(y, z), xz |-> lessThan(x, z)]
    /\ pc' = "compared"
    /\ UNCHANGED <<normVars, x, y, z, sameVars, strVars>>

NextCmp == Compare

SpecCmp == InitCmp /\ [][NextCmp]_vars

----------------------------------------------------------------------------
(* Change detector *)

InitSame ==
    /\ pc = "lists"
    /\ a \in SeqsUpTo(SamePorts, MaxListLen)
    /\ b \in SeqsUpTo(SamePorts, MaxListLen)
    /\ same = FALSE
    /\ batch = <<>> /\ heap = <<>> /\ ps = NilSlice /\ out = NilSlice
    /\ snap = <<>> /\ rel = "none" /\ batch2 = <<>> /\ out2 = NilSlice
    /\ x = ZeroPort /\ y = ZeroPort /\ z = ZeroPort /\ lt = <<>>
    /\ pl = <<>> /\ text = <<>>

CallSameInodes ==
    /\ pc = "lists"
    /\ same' = sameInodes(a, b)
    /\ pc' = "detected"
    /\ UNCHANGED <<normVars, cmpVars, a, b, strVars>>

NextSame == CallSameInodes

SpecSame == InitSame /\ [][NextSame]_vars

----------------------------------------------------------------------------
(* Presenter *)

InitString ==
    /\ pc = "list"
    /\ pl \in SeqsUpTo(RenderPorts, MaxLines)
    /\ text = <<>>
    /\ batch = <<>> /\ heap = <<>> /\ ps = NilSlice /\ out = NilSlice
    /\ snap = <<>> /\ rel = "none" /\ batch2 = <<>> /\ out2 = NilSlice
    /\ x = ZeroPort /\ y = ZeroPort /\ z = ZeroPort /\ lt = <<>>
    /\ a = <<>> /\ b = <<>> /\ same = FALSE

CallString ==
    /\ pc = "list"
    /\ text' = String(pl)
    /\ pc' = "rendered"
    /\ UNCHANGED <<normVars, cmpVars, sameVars, pl>>

NextString == CallString

SpecString == InitString /\ [][NextString]_vars

----------------------------------------------------------------------------
(* Properties *)

Key(p) == <<p.Proto, p.Port>>

Keys(s) == {Key(s[i]) : i \in 1..Len(s)}

\* (socketIdentity, process) compared lexicographically, identity first
IdLess(p, q) ==
    \/ StrLess(p.inode, q.inode)
    \/ p.inode = q.inode /\ StrLess(p.Process, q.Process)

\* the lexicographic order of the tuple (port, protocol, socketIdentity, process)
TupleLess(p, q) ==
    \/ p.Port < q.Port
    \/ p.Port = q.Port /\ StrLess(p.Proto, q.Proto)
    \/ p.Port = q.Port /\ p.Proto = q.Proto /\ IdLess(p, q)

TcpUdpOnly(s) == \A i \in 1..Len(s) : s[i].Proto \in {tcp, udp}

SameTriple(p, q) == p.Proto = q.Proto /\ p.Port = q.Port /\ p.inode = q.inode

\* at most one Observation per (protocol, port), each an entry of the batch,
\* and none with the same pair and a smaller (socketIdentity, process) in
\* the batch
KeepsSmallest(bt, o) ==
    /\ \A i, j \in 1..Len(o) : i # j => Key(o[i]) # Key(o[j])
    /\ \A i \in 1..Len(o) : \E k \in 1..Len(bt) : bt[k] = o[i]
    /\ \A i \in 1..Len(o) : \A k \in 1..Len(bt) :
          Key(bt[k]) = Key(o[i]) => ~IdLess(bt[k], o[i])

\* C1 as stated: after sortAndDedup on a batch of tcp/udp Observations the
\* Snapshot holds at most one Observation per (protocol, port), the one with
\* the smallest (socketIdentity, process); and the example batch gives
\* [{tcp,80,"",""}, {udp,53,"sock3","dns"}].
C1_AsStated ==
    (pc = "normalized" /\ TcpUdpOnly(batch)) =>
        /\ KeepsSmallest(batch, View(heap, out))
        /\ (batch = ExampleBatch =>
              View(heap, out) = <<ExampleBatch[1], ExampleBatch[3]>>)

\* C1 amended: after sortAndDedup on a batch of tcp/udp Observations the
\* Snapshot holds at most one Observation per (protocol, port), the one with
\* the smallest (socketIdentity, process); the example batch gives
\* [{udp,53,"sock3","dns"}, {tcp,80,"",""}], the lower port first.
C1_DedupCorrect ==
    (pc = "normalized" /\ TcpUdpOnly(batch)) =>
        /\ KeepsSmallest(batch, View(heap, out))
        /\ (batch = ExampleBatch =>
              View(heap, out) = <<ExampleBatch[3], ExampleBatch[1]>>)

\* a batch whose first entry loses the dedup to a later entry with the same
\* (protocol, port) and a smaller identity, next to another port
C1_Witness ==
    /\ pc = "normalized"
    /\ Len(batch) = 3
    /\ Len(View(heap, out)) = 2
    /\ \E k \in 2..3 : Key(batch[k]) = Key(batch[1]) /\ IdLess(batch[k], batch[1])

\* C2: sameInodes is true exactly when the lengths agree and protocol, port
\* and socketIdentity agree at every index; so it is true of a list and
\* itself, true when only process fields differ, and false when a length,
\* protocol, port or socketIdentity differs.
C2_SameInodesExact ==
    pc = "detected" =>
        /\ same = (/\ Len(a) = Len(b)
                   /\ \A i \in 1..Len(a) : SameTriple(a[i], b[i]))
        /\ (a = b => same)
        /\ ((/\ Len(a) = Len(b)
             /\ \A i \in 1..Len(a) : a[i] = [b[i] EXCEPT !.Process = a[i].Process])
               => same)
        /\ (Len(a) # Len(b) => ~same)
        /\ \A i \in 1..Len(a) :
              (i <= Len(b) /\ ~SameTriple(a[i], b[i])) => ~same

\* two lists of two that differ in the process of the second entry only
C2_Witness ==
    /\ pc = "detected"
    /\ Len(a) = 2 /\ Len(b) = 2
    /\ a[1] = b[1]
    /\ a[2].Process # b[2].Process
    /\ same

\* C3: normalizing a permutation of a batch returns the same Snapshot,
\* equal element for element in all four fields.
C3_PermutationInvariant ==
    (pc = "renormalized" /\ rel = "permuted") => View(heap, out2) = snap

\* a reordered batch holding two fully identical Observations and a
\* third one
C3_Witness ==
    /\ pc = "renormalized" /\ rel = "permuted"
    /\ Len(batch) = 3
    /\ batch2 # batch
    /\ \E i, j \in 1..3 : i # j /\ batch[i] = batch[j]
    /\ Len(snap) = 2

\* C4: the Snapshot is strictly increasing under the order port, protocol,
\* socketIdentity, process, and no two adjacent entries share
\* (protocol, port).
C4_Sorted ==
    pc = "normalized" =>
        LET o == View(heap, out) IN
        \A i \in 1..(Len(o) - 1) :
            /\ TupleLess(o[i], o[i + 1])
            /\ Key(o[i]) # Key(o[i + 1])

\* a batch handed over in descending order whose three entries all survive
C4_Witness ==
    /\ pc = "normalized"
    /\ Len(batch) = 3
    /\ Len(View(heap, out)) = 3
    /\ TupleLess(batch[3], batch[2]) /\ TupleLess(batch[2], batch[1])

\* C5 as stated: after sortAndDedup the caller's batch holds the same
\* Observations at the same positions and the Snapshot shares no storage
\* with it.
C5_Pure ==
    pc = "normalized" =>
        /\ View(heap, ps) = batch
        /\ (out.len > 0 => out.ptr # ps.ptr)

\* C5 amended: sortAndDedup works in place.  The Snapshot is a slice of the
\* batch's own backing array; afterwards the batch holds the Snapshot in
\* its first len(out) positions and, behind it, what the sort put there.
C5_InPlace ==
    pc = "normalized" =>
        /\ out.ptr = ps.ptr
        /\ out.len <= ps.len
        /\ Len(heap) = 1
        /\ Len(heap[1]) = Len(batch)
        /\ SubSeq(View(heap, ps), 1, out.len) = snap
        /\ \E srt \in SortOutcomes(batch) :
              \A i \in (out.len + 1)..Len(batch) : heap[1][i] = srt[i]

\* a call that rearranged the caller's batch and dropped an entry
C5_Witness ==
    /\ pc = "normalized"
    /\ View(heap, ps) # batch
    /\ out.len > 0
    /\ out.len < ps.len

\* newline characters in a text
RECURSIVE CountNL(_)
CountNL(t) == IF t = <<>> THEN 0 ELSE (IF Head(t) = 10 THEN 1 ELSE 0) + CountNL(Tail(t))

NoNL(t) == \A i \in 1..Len(t) : t[i] # 10

\* the text cut at its newline characters
RECURSIVE LinesFrom(_, _, _)
LinesFrom(t, i, cur) ==
    IF i > Len(t) THEN <<cur>>
    ELSE IF t[i] = 10 THEN <<cur>> \o LinesFrom(t, i + 1, <<>>)
    ELSE LinesFrom(t, i + 1, Append(cur, t[i]))

\* C6: String renders the empty list as the empty text, and a list of
\* n >= 1 Observations whose protocol and socketIdentity hold no newline as
\* n lines in list order, separated by n-1 newlines, with no trailing
\* newline, line i being the formatted fields of Observation i.
C6_OneLinePerObservation ==
    pc = "rendered" =>
        /\ (pl = <<>> => text = <<>>)
        /\ (/\ Len(pl) >= 1
            /\ \A i \in 1..Len(pl) : NoNL(pl[i].Proto) /\ NoNL(pl[i].inode))
           => /\ CountNL(text) = Len(pl) - 1
              /\ text # <<>>
              /\ text[Len(text)] # 10
              /\ LET ls == LinesFrom(text, 1, <<>>) IN
                 /\ Len(ls) = Len(pl)
                 /\ \A i \in 1..Len(pl) :
                       ls[i] = PadRight(pl[i].Proto, 3) \o <<32>>
                                 \o PadLeft(Itoa(pl[i].Port), 5) \o <<32>>
                                 \o PadRight(pl[i].inode, 17) \o <<32>>
                                 \o <<34>> \o QuoteBody(pl[i].Process) \o <<34>>

\* two Observations, each with a process name that ends in a newline
C6_Witness ==
    /\ pc = "rendered"
    /\ Len(pl) = 2
    /\ \A i \in 1..2 : NoNL(pl[i].inode) /\ pl[i].Process = <<120, 10>>
    /\ CountNL(text) = 1

\* C7: lessThan is the lexicographic order of (port, protocol,
\* socketIdentity, process): irreflexive, transitive, and exactly one of
\* a < b, b < a, a = b holds; a lower port comes first whatever the
\* protocol, and at equal port tcp comes before udp.
C7_StrictTotalOrder ==
    pc = "compared" =>
        /\ ~lt.xx
        /\ (lt.xy /\ lt.yz => lt.xz)
        /\ (lt.xy \/ lt.yx \/ x = y)
        /\ ~(lt.xy /\ lt.yx)
        /\ ~(lt.xy /\ x = y)
        /\ ~(lt.yx /\ x = y)
        /\ lt.xy = TupleLess(x, y)
        /\ (x.Port < y.Port => lt.xy)
        /\ (x.Port = y.Port /\ x.Proto = tcp /\ y.Proto = udp => lt.xy)

\* udp/53 before tcp/80 before tcp/80 with a greater identity
C7_Witness ==
    /\ pc = "compared"
    /\ x.Proto = udp /\ x.Port = 53
    /\ y.Proto = tcp /\ y.Port = 80
    /\ z.Proto = tcp /\ z.Port = 80 /\ StrLess(y.inode, z.inode)
    /\ lt.xy /\ lt.yz /\ lt.xz

\* C8: a second batch that differs from the first in process names only
\* normalizes to a Snapshot that sameInodes reports as unchanged: same
\* length, and the same (protocol, port, socketIdentity) at every index.
C8_ProcessChurnInvisible ==
    (pc = "renormalized" /\ rel = "churned") =>
        LET o2 == View(heap, out2) IN
        /\ same
        /\ Len(o2) = Len(snap)
        /\ \A i \in 1..Len(snap) : SameTriple(snap[i], o2[i])

\* process names changed so that the two Snapshots differ, after a dedup
C8_Witness ==
    /\ pc = "renormalized" /\ rel = "churned"
    /\ Len(snap) < Len(batch)
    /\ View(heap, out2) # snap
    /\ same

\* C9: for a batch of tcp/udp Observations the Snapshot holds exactly the
\* (protocol, port) pairs of the batch, one entry each, port 0 included;
\* the empty batch gives the empty Snapshot.
C9_NoPortLost ==
    (pc = "normalized" /\ TcpUdpOnly(batch)) =>
        LET o == View(heap, out) IN
        /\ Keys(o) = Keys(batch)
        /\ Len(o) = Cardinality(Keys(batch))
        /\ (batch = <<>> => o = <<>>)

\* a batch with tcp/0, udp/0 and another port, all kept
C9_Witness ==
    /\ pc = "normalized"
    /\ Keys(batch) = {<<tcp, 0>>, <<udp, 0>>, <<tcp, 80>>}
    /\ Keys(View(heap, out)) = Keys(batch)

\* C10: normalizing a Snapshot again returns it element for element, and
\* sameInodes reports the two as unchanged.
C10_Idempotent ==
    (pc = "renormalized" /\ rel = "snapshot") =>
        /\ View(heap, out2) = snap
        /\ same

\* a Snapshot of two entries, left after a dedup, normalized again
C10_Witness ==
    /\ pc = "renormalized" /\ rel = "snapshot"
    /\ Len(batch) = 3
    /\ Len(snap) = 2
    /\ Len(View(heap, out2)) = 2

====
